---- MODULE Spec2Model ----
(***************************************************************************)
(* Model of EasyRPG Player's audio decoder base class and decoder factory  *)
(* (src/src/audio_decoder.cpp).                                            *)
(*                                                                         *)
(* The specifications share the variables of one decoder, one destination  *)
(* buffer and one input stream:                                            *)
(*   SpecDecode  the playback engine: Pause, Resume, SetLooping, Decode    *)
(*   SpecDecodeAll  the same engine drained with DecodeAll                 *)
(*   SpecDiag    decoder after decoder looping over an empty track         *)
(*   SpecFade    the volume envelope: SetVolume, SetFade, Update           *)
(*   SpecCreate  the format classifier AudioDecoder::Create                *)
(***************************************************************************)
EXTENDS Integers, Sequences, FiniteSets, TLC

VARIABLES
    \* ---- the decoder object (AudioDecoder fields) ----
    backend,      \* which concrete decoder this is and how its backend behaves
    pos,          \* backend read position inside its track
    eof,          \* backend hit the end of its track on a read
    paused,       \* AudioDecoder::paused
    looping,      \* AudioDecoder::looping
    loop_count,   \* AudioDecoder::loop_count
    \* ---- the caller's destination memory and what the last call did ----
    mem,          \* the bytes around the destination buffer, buffer at 0
    length,       \* the length passed to the last top-level Decode
    ret,          \* the value the last top-level Decode returned
    fills,        \* FillBuffer invocations made by the last top-level Decode
    rewinds,      \* Rewind invocations made by the last top-level Decode
    diags,        \* recursion-cap diagnostics emitted by the last Decode
    oob,          \* an access outside buf[0..length) happened in the last Decode
    aborted,      \* the process died on assert(false && "Rewind")
    ndebug,       \* build: assertions compiled out (NDEBUG)
    error_message,\* AudioDecoder::error_message
    op,           \* the operation that ran last
    log_lines,    \* recursion-cap diagnostics written by the process so far
    \* ---- DecodeAll ----
    buffer,       \* the std::vector DecodeAll built, indexed from 0
    drain,        \* how the last DecodeAll ended
    \* ---- the volume envelope ----
    volume,       \* AudioDecoder::volume, an exact rational [n, d]
    fade_end,     \* AudioDecoder::fade_end
    fade_time,    \* AudioDecoder::fade_time (always a whole number)
    delta_step,   \* AudioDecoder::delta_step, an exact rational [n, d]
    fade_log,     \* history: the last SetFade call and the Update calls since
    \* ---- the classifier ----
    build,        \* the compile-time feature switches of Create
    mpg123_works, \* the function-local static of Create
    stream,       \* the input stream handed to Create: data, pos, flags
    created,      \* what the last Create returned
    call          \* what the last Create did on its way

engineVars == <<backend, pos, eof, paused, looping, loop_count, mem, length,
                ret, fills, rewinds, diags, oob, aborted, ndebug, error_message>>
fadeVars   == <<volume, fade_end, fade_time, delta_step, fade_log>>
createVars == <<build, mpg123_works, stream, created, call>>
drainVars  == <<buffer, drain>>
vars       == <<engineVars, op, log_lines, fadeVars, createVars, drainVars>>

----------------------------------------------------------------------------
\* Bounds of the model

\* Longest of the short destination buffers a caller passes to Decode.
MaxLen == 3
\* Longest backend track, in bytes.
MaxTrack == 2
\* Decode is not called again once loop_count has reached this value.
MaxLoopCount == 2

\* Program constants
\* The recursion cap of Decode.
RecursionCap == 10
\* The diagnostic is only emitted while loop_count is below this.
DiagLoopLimit == 50

Min(a, b) == IF a < b THEN a ELSE b
Max(a, b) == IF a > b THEN a ELSE b

----------------------------------------------------------------------------
\* Destination memory.  The caller's buffer is mem[0..length-1]; the cells
\* below 0 are whatever lies in front of the buffer.  A cell holds Stale (its
\* content from before the call), 0, or a byte the backend produced.

Stale == 0 - 1
MemLo == 0 - RecursionCap
\* One long buffer: long enough for a one-byte track to be wrapped around
\* until the recursion cap is reached.
LongLen == RecursionCap + 2
Lengths == (0..MaxLen) \cup {LongLen}
MemHi == Max(MaxLen, LongLen) - 1
MemCells == MemLo..MemHi
FreshMem == [i \in MemCells |-> Stale]

\* The byte the backend's track holds at position p (never 0, so that a
\* produced byte can be told from a zero fill).
TrackByte(p) == p + 1

\* memset(&buffer[base], '\0', n)
ZeroFill(m, base, n) ==
    [i \in DOMAIN m |-> IF i >= base /\ i < base + n THEN 0 ELSE m[i]]

\* The cells of [base, base+n) that lie outside the caller's buf[0..top).
Outside(base, n, top) == {i \in base..(base + n - 1) : i < 0 \/ i >= top}

----------------------------------------------------------------------------
\* The concrete decoders behind the AudioDecoder interface.
\*
\* backend.kind = "wma"   : WMAUnsupportedFormatDecoder.
\* backend.kind = "track" : a codec backend decoding a track of backend.len
\*   bytes.  lazy: it reports finished only after a read ran into the end of
\*   the track (otherwise as soon as the position is at the end).  chunk: the
\*   most bytes one FillBuffer call produces.  err: "none", "eof" (a read at
\*   the end of the track returns -1) or "dead" (every read returns -1 and the
\*   backend never reports finished).

NoChunk == MemHi + RecursionCap + 2

DeadBackend == [kind |-> "track", len |-> 0, lazy |-> FALSE, chunk |-> NoChunk, err |-> "dead"]

TrackBackends ==
    [kind : {"track"}, len : 0..MaxTrack, lazy : BOOLEAN,
     chunk : {1, NoChunk}, err : {"none", "eof"}] \cup {DeadBackend}

WMABackend == [kind |-> "wma", len |-> 0, lazy |-> FALSE, chunk |-> NoChunk, err |-> "none"]

\* No decoder object exists.
NoDecoder == [kind |-> "none", len |-> 0, lazy |-> FALSE, chunk |-> NoChunk, err |-> "none"]

\* A decoder of one of the codec backends, as Create hands it out (unopened).
CodecBackend == [kind |-> "track", len |-> MaxTrack, lazy |-> FALSE, chunk |-> NoChunk, err |-> "none"]

\* WMAUnsupportedFormatDecoder's constructor (lines 102-105) sets the error
\* message; the other decoders start with an empty one.
WMAErrorMessage ==
    "WMA audio files are not supported. Reinstall the game and don't convert them when asked by Windows!"

ErrorMessageOf(b) == IF b.kind = "wma" THEN WMAErrorMessage ELSE ""

Backends == TrackBackends \cup {WMABackend}

\* WMAUnsupportedFormatDecoder::FillBuffer: writes nothing, returns -1.
WMAFillBuffer(s) == [s EXCEPT !.res = 0 - 1, !.fills = @ + 1]

\* FillBuffer of a codec backend: s is the call's working state, base the
\* cell the destination starts at, n the requested length.
TrackFillBuffer(b, s, base, n) ==
    LET avail == b.len - s.pos
        want  == Min(n, b.chunk)
        cnt   == Min(want, avail)
    IN  IF b.err = "dead"
          THEN [s EXCEPT !.res = 0 - 1, !.fills = @ + 1]
        ELSE IF b.err = "eof" /\ avail = 0
          THEN [s EXCEPT !.res = 0 - 1, !.fills = @ + 1, !.eof = TRUE]
        ELSE [s EXCEPT
                !.res = cnt,
                !.fills = @ + 1,
                !.pos = @ + cnt,
                !.eof = @ \/ (want > avail),
                !.mem = [i \in DOMAIN @ |->
                            IF i >= base /\ i < base + cnt
                              THEN TrackByte(s.pos + (i - base))
                              ELSE @[i]]]

\* The virtual call FillBuffer(buffer, length).
FillBuffer(b, s, base, n) ==
    IF b.kind = "wma" THEN WMAFillBuffer(s) ELSE TrackFillBuffer(b, s, base, n)

\* WMAUnsupportedFormatDecoder::IsFinished
WMAIsFinished == TRUE

TrackIsFinished(b, p, e) ==
    IF b.err = "dead" THEN FALSE
    ELSE IF b.lazy THEN e
    ELSE p = b.len

\* The virtual call IsFinished().
IsFinished(b, p, e) ==
    IF b.kind = "wma" THEN WMAIsFinished ELSE TrackIsFinished(b, p, e)

\* WMAUnsupportedFormatDecoder::Seek
WMASeek(s) == [s EXCEPT !.ok = FALSE]

\* Seek(0, beg) of a codec backend: always succeeds.
TrackSeek(s) == [s EXCEPT !.ok = TRUE, !.pos = 0, !.eof = FALSE]

\* The virtual call Seek(0, std::ios_base::beg).
Seek(b, s) == IF b.kind = "wma" THEN WMASeek(s) ELSE TrackSeek(s)

\* AudioDecoder::Rewind: a failed Seek trips assert(false && "Rewind"), which
\* ends the process unless assertions are compiled out.
Rewind(b, s, nd) ==
    LET t == Seek(b, s)
    IN  [t EXCEPT !.rewinds = @ + 1,
                  !.aborted = @ \/ (~t.ok /\ ~nd)]

----------------------------------------------------------------------------
\* AudioDecoder::Decode

\* The working state of one top-level Decode call.
CallState(m, p, e, lc) ==
    [mem |-> m, pos |-> p, eof |-> e, loop_count |-> lc, fills |-> 0,
     rewinds |-> 0, diags |-> 0, oob |-> FALSE, aborted |-> FALSE,
     res |-> 0, ok |-> TRUE]

\* The paused branch without its memset.
PausedDecodeNoMemset(s, base, n) == [s EXCEPT !.res = n]

\* Lines 48-51: the paused branch.
PausedDecode(s, base, n) ==
    [s EXCEPT !.mem = ZeroFill(@, base, n), !.res = n]

\* The padding without its branch for a negative result.
PadNoNegative(m, base, n, res) ==
    IF res >= 0 /\ res < n THEN ZeroFill(m, base + res, n - res) ELSE m

\* Lines 55-59: the padding after FillBuffer returned res for a request of n.
Pad(m, base, n, res) ==
    IF res < 0 THEN ZeroFill(m, base, n)
    ELSE IF res < n THEN ZeroFill(m, base + res, n - res)
    ELSE m

\* Loop re-entry with the cap tested one level too late.
LoopAgainOffByOne(fin, loop, depth) == fin /\ loop /\ depth <= RecursionCap

\* Line 61: the condition of loop re-entry.
LoopAgain(fin, loop, depth) == fin /\ loop /\ depth < RecursionCap

\* Lines 66-69: the value returned after the recursive call returned res2.
Total(res, res2) == IF res2 <= 0 THEN res ELSE res + res2

\* Lines 73-78: the diagnostic at the recursion cap, then return res.
Report(s, depth, res) ==
    [s EXCEPT !.diags = IF depth = RecursionCap /\ s.loop_count < DiagLoopLimit
                          THEN @ + 1 ELSE @,
              !.res = res]

\* Decode(buffer, length, recursion_depth), buffer = &mem[base], length = n.
\* c holds what the call reads and does not change: the backend, paused,
\* looping, the build's NDEBUG and the length of the caller's buffer.
RECURSIVE DecodeRec(_, _, _, _, _)
DecodeRec(c, s, base, n, depth) ==
    IF c.paused THEN PausedDecode(s, base, n)
    ELSE
      LET f   == FillBuffer(c.b, s, base, n)
          res == f.res
          z   == [f EXCEPT !.mem = Pad(@, base, n, res),
                           !.oob = @ \/ base < 0 \/ base + n > c.top]
      IN  IF LoopAgain(IsFinished(c.b, z.pos, z.eof), c.looping, depth)
            THEN LET w == Rewind(c.b, [z EXCEPT !.loop_count = @ + 1], c.nd)
                 IN  IF w.aborted THEN w
                     ELSE IF n - res > 0
                       THEN LET r == DecodeRec(c, w, base + res, n - res, depth + 1)
                            IN  IF r.aborted THEN r
                                ELSE [r EXCEPT !.res = Total(res, r.res)]
                     ELSE Report(w, depth, res)
            ELSE Report(z, depth, res)

----------------------------------------------------------------------------
\* The operations of the playback engine

Pause ==
    /\ ~aborted
    /\ paused' = TRUE
    /\ op' = "Pause"
    /\ UNCHANGED <<backend, pos, eof, looping, loop_count, mem, length, ret,
                   fills, rewinds, diags, oob, aborted, ndebug, error_message>>
    /\ UNCHANGED <<fadeVars, createVars, drainVars, log_lines>>

Resume ==
    /\ ~aborted
    /\ paused' = FALSE
    /\ op' = "Resume"
    /\ UNCHANGED <<backend, pos, eof, looping, loop_count, mem, length, ret,
                   fills, rewinds, diags, oob, aborted, ndebug, error_message>>
    /\ UNCHANGED <<fadeVars, createVars, drainVars, log_lines>>

SetLooping(enable) ==
    /\ ~aborted
    /\ looping' = enable
    /\ op' = "SetLooping"
    /\ UNCHANGED <<backend, pos, eof, paused, loop_count, mem, length, ret,
                   fills, rewinds, diags, oob, aborted, ndebug, error_message>>
    /\ UNCHANGED <<fadeVars, createVars, drainVars, log_lines>>

\* Decode(buffer, length) on a buffer of n bytes whose content, like that of
\* the memory in front of it, is stale.  A call that wrote outside the buffer
\* has undefined behaviour: the write either lands in the memory in front of
\* the buffer and the call returns, or the process dies.  The call is made
\* while loop_count is below cap.
DecodeWithin(n, cap) ==
    /\ ~aborted
    /\ loop_count < cap
    /\ LET c == [b |-> backend, paused |-> paused, looping |-> looping,
                 nd |-> ndebug, top |-> n]
           r == DecodeRec(c, CallState(FreshMem, pos, eof, loop_count), 0, n, 0)
       IN  /\ mem' = r.mem
           /\ pos' = r.pos
           /\ eof' = r.eof
           /\ loop_count' = r.loop_count
           /\ fills' = r.fills
           /\ rewinds' = r.rewinds
           /\ diags' = r.diags
           /\ oob' = r.oob
           /\ aborted' \in {r.aborted} \cup (IF r.oob THEN {TRUE} ELSE {})
           /\ ret' = r.res
           /\ log_lines' = log_lines + r.diags
    /\ length' = n
    /\ op' = "Decode"
    /\ UNCHANGED <<backend, paused, looping, ndebug, error_message>>
    /\ UNCHANGED <<fadeVars, createVars, drainVars>>

Decode(n) == DecodeWithin(n, MaxLoopCount)

----------------------------------------------------------------------------
\* AudioDecoder::DecodeAll

\* Bound: the length of the chunk DecodeAll decodes at a time.  Line 82 has
\* 8192; DecodeAll uses the number only as the length it asks Decode for and
\* in comparisons with what Decode returned and with the vector's size, so
\* the model drains in chunks of ChunkLen bytes.
ChunkLen == 12

\* Line 82: const int buffer_size.
buffer_size == ChunkLen

\* Bound: the memory left holds a vector of at most MaxChunks chunks; a
\* resize beyond that throws std::bad_alloc.
MaxChunks == 3

\* The vector of line 84 before its resize.
EmptyVector == [i \in {} |-> 0]

\* std::vector<uint8_t>::resize(n): keeps the first n bytes, new bytes are 0.
Resize(v, n) == [i \in 0..(n - 1) |-> IF i \in DOMAIN v THEN v[i] ELSE 0]

\* The memory a Decode at offset off of the vector v has in front of it: the
\* chunk is cells 0..buffer_size-1, the cells below 0 are the vector's bytes
\* before the chunk or, before the vector's start, foreign memory.
Window(v, off) ==
    [i \in MemLo..(buffer_size - 1) |-> IF off + i >= 0 THEN v[off + i] ELSE Stale]

\* The vector after the Decode at offset off left the memory m.
Merge(v, off, m) ==
    [j \in DOMAIN v |-> IF j - off >= MemLo THEN m[j - off] ELSE v[j]]

\* The Decode at offset off wrote in front of the vector's storage.
Wild(m, off) == \E i \in MemLo..(0 - 1) : off + i < 0 /\ m[i] # Stale

\* The ways DecodeAll ends: it returns the vector, the assertion of Rewind
\* ends the process, or a resize throws.
Drained(s, v, wild, how) == [s |-> s, buffer |-> v, wild |-> wild, out |-> how]

\* Lines 87-95: the loop, entered with the vector v of size bytes.  c is what
\* Decode reads and does not change, s the decoder's state and the counts of
\* what the Decode calls made so far did.
RECURSIVE DrainLoop(_, _, _, _, _)
DrainLoop(c, s, v, size, wild) ==
    IF IsFinished(c.b, s.pos, s.eof) THEN Drained(s, v, wild, "returned")
    ELSE
      LET off  == size - buffer_size
          r    == DecodeRec(c, [s EXCEPT !.mem = Window(v, off)], 0, buffer_size, 0)
          read == r.res
          v1   == Merge(v, off, r.mem)
          w1   == wild \/ Wild(r.mem, off)
      IN  IF r.aborted THEN Drained(r, v1, w1, "aborted")
          ELSE IF read < buffer_size
            THEN \* size() - (buffer_size - read) is computed in size_t: below
                 \* zero it wraps to more than max_size() and resize throws.
                 IF size - (buffer_size - read) < 0
                   THEN Drained(r, v1, w1, "length_error")
                   ELSE Drained(r, Resize(v1, size - (buffer_size - read)), w1, "returned")
          ELSE IF size + buffer_size > MaxChunks * buffer_size
            THEN Drained(r, v1, w1, "bad_alloc")
          ELSE DrainLoop(c, r, Resize(v1, size + buffer_size), size + buffer_size, w1)

\* std::vector<uint8_t> DecodeAll().  fills, rewinds, diags and oob are those
\* of all the Decode calls it made; mem, length and ret stay those of the
\* caller's own last Decode.  A write in front of the vector's storage has
\* undefined behaviour: the call goes on or the process dies.
DecodeAll ==
    /\ ~aborted
    /\ loop_count < MaxLoopCount
    /\ LET c == [b |-> backend, paused |-> paused, looping |-> looping,
                 nd |-> ndebug, top |-> buffer_size]
           d == DrainLoop(c, CallState(FreshMem, pos, eof, loop_count),
                          Resize(EmptyVector, buffer_size), buffer_size, FALSE)
       IN  /\ buffer' = d.buffer
           /\ drain' = d.out
           /\ pos' = d.s.pos
           /\ eof' = d.s.eof
           /\ loop_count' = d.s.loop_count
           /\ fills' = d.s.fills
           /\ rewinds' = d.s.rewinds
           /\ diags' = d.s.diags
           /\ oob' = d.s.oob
           /\ aborted' \in {d.out = "aborted"} \cup (IF d.wild THEN {TRUE} ELSE {})
           /\ log_lines' = log_lines + d.s.diags
    /\ op' = "DecodeAll"
    /\ UNCHANGED <<backend, paused, looping, ndebug, error_message, mem, length, ret>>
    /\ UNCHANGED <<fadeVars, createVars>>

----------------------------------------------------------------------------
\* The volume envelope.  volume and delta_step are doubles in the code; here
\* they are exact rationals n/d with d > 0 in lowest terms, so the model
\* leaves out floating-point rounding.  fade_end and fade_time only ever hold
\* whole numbers (sums and differences of int arguments).

\* Bound: Update is not called when it would push fade_time above this.
MaxFadeTime == 5

\* The int arguments callers pass.
VolumeArgs == {0 - 20, 0, 40, 100, 130}
DurationArgs == {0 - 1, 0, 2, 3, 4}
DeltaArgs == {0 - 1, 0, 1, 3}

Abs(x) == IF x < 0 THEN 0 - x ELSE x

RECURSIVE GCD(_, _)
GCD(a, b) == IF b = 0 THEN a ELSE GCD(b, a % b)

Rat(n, d) == LET g == GCD(Abs(n), d) IN [n |-> n \div g, d |-> d \div g]
RatAdd(a, b) == Rat(a.n * b.d + b.n * a.d, a.d * b.d)
RatMulInt(k, a) == Rat(k * a.n, a.d)
RatLess(a, k) == a.n < k * a.d
RatGreater(a, k) == a.n > k * a.d

\* (int)x: truncation toward zero.
Trunc(a) == IF a.n >= 0 THEN a.n \div a.d ELSE 0 - ((0 - a.n) \div a.d)

\* Lines 258-260: the clamp of Update.
Clamp(v) ==
    IF RatGreater(v, 100) THEN Rat(100, 1)
    ELSE IF RatLess(v, 0) THEN Rat(0, 1)
    ELSE v

\* AudioDecoder::GetVolume
GetVolume == Trunc(volume)

\* The history of the envelope.  kind is "none" before the first SetFade,
\* "immediate" after a SetFade that set the volume at once, "running" after a
\* SetFade that started a fade and "done" once the deltas of the Update calls
\* since have added up to its duration; t is that sum (no longer kept once
\* done); exact says that since the SetFade every delta was positive and
\* SetVolume was not called.
NoFade ==
    [kind |-> "none", begin |-> 0, end |-> 0, duration |-> 0, t |-> 0, exact |-> TRUE]

Logged(begin, end, duration) ==
    [kind |-> IF duration <= 0 \/ begin = end THEN "immediate" ELSE "running",
     begin |-> begin, end |-> end, duration |-> duration, t |-> 0, exact |-> TRUE]

Elapsed(log, delta) ==
    IF log.kind # "running" THEN log
    ELSE [log EXCEPT !.t = @ + delta,
                     !.exact = @ /\ delta > 0,
                     !.kind = IF log.t + delta >= log.duration THEN "done" ELSE @]

\* AudioDecoder::SetVolume(int volume)
SetVolume(v) ==
    /\ volume' = Rat(v, 1)
    /\ fade_log' = [fade_log EXCEPT !.exact = FALSE]
    /\ op' = "SetVolume"
    /\ UNCHANGED <<fade_end, fade_time, delta_step>>
    /\ UNCHANGED <<engineVars, createVars, drainVars, log_lines>>

\* The step computed in whole numbers.
DeltaStepWhole(begin, end, duration) == Rat((end - begin) \div duration, 1)

\* Line 247: delta_step = (fade_end - volume) / fade_time, in doubles.
DeltaStep(begin, end, duration) == Rat(end - begin, duration)

\* SetFade without line 232: an immediate SetFade leaves fade_time alone.
SetFadeKeepsTime(begin, end, duration) ==
    /\ IF duration <= 0 \/ begin = end
         THEN /\ volume' = Rat(end, 1)
              /\ UNCHANGED <<fade_end, fade_time, delta_step>>
         ELSE /\ volume' = Rat(begin, 1)
              /\ fade_end' = end
              /\ fade_time' = duration
              /\ delta_step' = DeltaStep(begin, end, duration)
    /\ fade_log' = Logged(begin, end, duration)
    /\ op' = "SetFade"
    /\ UNCHANGED <<engineVars, createVars, drainVars, log_lines>>

\* AudioDecoder::SetFade(int begin, int end, int duration)
SetFade(begin, end, duration) ==
    /\ IF duration <= 0 \/ begin = end
         THEN /\ fade_time' = 0
              /\ volume' = Rat(end, 1)
              /\ UNCHANGED <<fade_end, delta_step>>
         ELSE /\ volume' = Rat(begin, 1)
              /\ fade_end' = end
              /\ fade_time' = duration
              /\ delta_step' = DeltaStep(begin, end, duration)
    /\ fade_log' = Logged(begin, end, duration)
    /\ op' = "SetFade"
    /\ UNCHANGED <<engineVars, createVars, drainVars, log_lines>>

\* AudioDecoder::Update(int delta)
Update(delta) ==
    /\ fade_time - delta <= MaxFadeTime
    /\ IF fade_time <= 0
         THEN UNCHANGED <<volume, fade_time>>
         ELSE /\ fade_time' = fade_time - delta
              /\ volume' = Clamp(RatAdd(volume, RatMulInt(delta, delta_step)))
    /\ fade_log' = Elapsed(fade_log, delta)
    /\ op' = "Update"
    /\ UNCHANGED <<fade_end, delta_step>>
    /\ UNCHANGED <<engineVars, createVars, drainVars, log_lines>>

----------------------------------------------------------------------------
\* The input stream of Create: a std::istream over a seekable file.  data is
\* the file's bytes, pos the read position, fail and eofbit the stream's
\* failbit and eofbit.

NoStream == [data |-> <<>>, pos |-> 0, fail |-> FALSE, eofbit |-> FALSE]

OpenStream(bytes) == [data |-> bytes, pos |-> 0, fail |-> FALSE, eofbit |-> FALSE]

\* stream.read(buf, n): nothing is read from a stream that is not good();
\* a read that runs into the end of the file sets eofbit and failbit.
\* got is what was read (gcount() = Len(got)).
StreamRead(st, n) ==
    IF st.fail \/ st.eofbit
      THEN [st |-> [st EXCEPT !.fail = TRUE], got |-> <<>>]
      ELSE LET k == Min(n, Max(Len(st.data) - st.pos, 0))
           IN  [st  |-> [st EXCEPT !.pos = @ + k, !.fail = (k < n), !.eofbit = (k < n)],
                got |-> SubSeq(st.data, st.pos + 1, st.pos + k)]

\* stream.seekg(off, beg): clears eofbit, then does nothing if fail().
StreamSeek(st, off) ==
    IF st.fail THEN [st EXCEPT !.eofbit = FALSE]
    ELSE [st EXCEPT !.eofbit = FALSE, !.pos = off]

\* stream.clear()
StreamClear(st) == [st EXCEPT !.fail = FALSE, !.eofbit = FALSE]

\* The bytes of buf after a read stored got at its start.
Stored(buf, got) ==
    [i \in 1..Len(buf) |-> IF i <= Len(got) THEN got[i] ELSE buf[i]]

\* strncmp(a, lit, n) == 0 and memcmp(a, lit, n) == 0, for a literal without
\* a NUL among its first n bytes.
SameBytes(a, lit, n) == \A i \in 1..n : a[i] = lit[i]

\* The byte strings Create compares with.
RIFF == <<82, 73, 70, 70>>
FORM == <<70, 79, 82, 77>>
OggS == <<79, 103, 103, 83>>
fLaC == <<102, 76, 97, 67>>
MThd == <<77, 84, 104, 100>>
ID3  == <<73, 68, 51>>
Opus == <<79, 112, 117, 115>>
vorb == <<118, 111, 114, 98>>
wma_magic == <<48, 38, 178, 117>>

----------------------------------------------------------------------------
\* AudioDecoder::Create, step by step.  b is the build, in the call's inputs
\* (the resample argument and what the collaborators answer), x the call's
\* working state: the stream, the local buffer magic, the static
\* mpg123_works and a record tr of what the call has done so far.

Decoder(kind, wrapped) == [kind |-> kind, wrapped |-> wrapped]
Nothing == Decoder("none", FALSE)

\* Lines 122-128: add_resampler.
AddResampler(b, in, kind) == Decoder(kind, b.resampler /\ in.resample)

\* A return statement: dec is what is returned, at names the statement.
Return(x, dec, at) ==
    [st |-> x.st, magic |-> x.magic, works |-> x.works, created |-> dec,
     tr |-> [x.tr EXCEPT !.exit = at]]

\* Mpg123Decoder::IsMp3(stream): the content scan reads the stream to its end.
IsMp3Scan(st) == StreamRead(StreamSeek(st, 0), Len(st.data) + 1).st

\* Lines 226-228: nothing matched.
NoMatch(x) ==
    Return([x EXCEPT !.st = StreamSeek(StreamClear(x.st), 0)], Nothing, "nomatch")

\* The last resort tried without looking at the static.
Mp3EnabledAlways(b, works) == b.mpg123

\* Lines 205-207: the last resort is tried if compiled in and not known broken.
Mp3Enabled(b, works) == b.mpg123 /\ works

\* Lines 205-224: the last-resort MP3 backend.
Mp3Step(b, in, x) ==
    IF Mp3Enabled(b, x.works)
      THEN LET x1 == [x EXCEPT !.tr.mp3_built = TRUE, !.tr.mp3_inited = in.inited]
           IN  IF in.inited
                 THEN IF SameBytes(x.magic, ID3, 3)
                        THEN Return(x1, AddResampler(b, in, "mp3"), "id3")
                        ELSE LET x2 == [x1 EXCEPT !.st = IsMp3Scan(@), !.tr.scanned = TRUE]
                             IN  IF in.ismp3
                                   THEN Return([x2 EXCEPT !.st = StreamSeek(StreamClear(@), 0)],
                                               AddResampler(b, in, "mp3"), "mp3")
                                   ELSE NoMatch(x2)
                 ELSE NoMatch([x1 EXCEPT !.works = FALSE])
      ELSE NoMatch(x)

\* Lines 198-202: tracker modules, by file name.
XmpStep(b, in, x) ==
    IF b.xmp /\ in.module
      THEN Return(x, AddResampler(b, in, "xmp"), "xmp")
      ELSE Mp3Step(b, in, x)

\* The signature compared as if its bytes were signed chars.
IsWMASigned(magic) == SameBytes(magic, <<48, 38, 178 - 256, 117>>, 4)

\* Line 193: the test for the WMA signature.
IsWMA(magic) == SameBytes(magic, wma_magic, 4)

\* Lines 193-195: the WMA sentinel.
WmaStep(b, in, x) ==
    IF IsWMA(x.magic)
      THEN Return(x, Decoder("wma", FALSE), "wma")
      ELSE XmpStep(b, in, x)

\* Lines 182-185: the formats handed to libsndfile.
IsGeneric(magic) ==
    \/ SameBytes(magic, RIFF, 4)
    \/ SameBytes(magic, FORM, 4)
    \/ SameBytes(magic, OggS, 4)
    \/ SameBytes(magic, fLaC, 4)

\* Lines 182-190: the generic multi-format backend.
GenericStep(b, in, x) ==
    IF IsGeneric(x.magic)
      THEN IF b.sndfile
             THEN Return(x, AddResampler(b, in, "sndfile"), "sndfile")
             ELSE Return(x, Nothing, "nosndfile")
      ELSE WmaStep(b, in, x)

\* Lines 165-179: the fast path for PCM WAV.  raw_enc is uninitialised, so the
\* bytes of it that the read does not store are whatever in.uninit holds.
\* The format code is little-endian in the file; SwapByteOrder makes it host
\* order.
FastWavStep(b, in, x) ==
    IF b.fastwav /\ SameBytes(x.magic, RIFF, 4)
      THEN LET r == StreamRead(StreamSeek(x.st, 20), 2)
               bytes == Stored(in.uninit, r.got)
               raw_enc == bytes[1] + 256 * bytes[2]
               x1 == [x EXCEPT !.st = StreamSeek(r.st, 0), !.tr.wav_probed = TRUE]
           IN  IF raw_enc = 1
                 THEN Return(x1, AddResampler(b, in, "wav"), "wav")
                 ELSE GenericStep(b, in, x1)
      ELSE GenericStep(b, in, x)

\* What a probe left behind: the stream's position and flags after it.
Probed(st) == [done |-> TRUE, pos |-> st.pos, fail |-> st.fail, eofbit |-> st.eofbit]
NotProbed == [done |-> FALSE, pos |-> 0, fail |-> FALSE, eofbit |-> FALSE]

\* Lines 152-162: the Vorbis probe at offset 29, reading into magic.
VorbisProbe(b, in, x) ==
    IF b.vorbis
      THEN LET r == StreamRead(StreamSeek(x.st, 29), 4)
           IN  IF Len(r.got) = 0
                 THEN Return([x EXCEPT !.st = r.st, !.tr.vorbis = Probed(r.st)],
                             Nothing, "vorbis_eof")
                 ELSE LET st1 == StreamSeek(r.st, 0)
                          x1 == [x EXCEPT !.st = st1, !.magic = Stored(@, r.got),
                                          !.tr.vorbis = Probed(st1)]
                      IN  IF SameBytes(x1.magic, vorb, 4)
                            THEN Return(x1, AddResampler(b, in, "vorbis"), "vorbis")
                            ELSE FastWavStep(b, in, x1)
      ELSE FastWavStep(b, in, x)

\* Lines 140-150: the Opus probe at offset 28, reading into magic.
OpusProbe(b, in, x) ==
    IF b.opus
      THEN LET r == StreamRead(StreamSeek(x.st, 28), 4)
           IN  IF Len(r.got) = 0
                 THEN Return([x EXCEPT !.st = r.st, !.tr.opus = Probed(r.st)],
                             Nothing, "opus_eof")
                 ELSE LET st1 == StreamSeek(r.st, 0)
                          x1 == [x EXCEPT !.st = st1, !.magic = Stored(@, r.got),
                                          !.tr.opus = Probed(st1)]
                      IN  IF SameBytes(x1.magic, Opus, 4)
                            THEN Return(x1, AddResampler(b, in, "opus"), "opus")
                            ELSE VorbisProbe(b, in, x1)
      ELSE VorbisProbe(b, in, x)

\* Lines 138-163: the internal Ogg decoders.
OggStep(b, in, x) ==
    IF SameBytes(x.magic, OggS, 4)
      THEN OpusProbe(b, in, x)
      ELSE FastWavStep(b, in, x)

\* The MIDI step giving up when MidiDecoder::Create produced no decoder.
MidiStepFailsOutright(b, in, x) ==
    IF SameBytes(x.magic, MThd, 4)
      THEN LET x1 == [x EXCEPT !.tr.midi_asked = TRUE, !.tr.midi_made = in.midi]
           IN  IF in.midi
                 THEN Return(x1, Decoder("midi", FALSE), "midi")
                 ELSE Return(x1, Nothing, "nomidi")
      ELSE OggStep(b, in, x)

\* Lines 130-136: MIDI.  MidiDecoder::Create answers in.midi and leaves the
\* stream alone.
MidiStep(b, in, x) ==
    IF SameBytes(x.magic, MThd, 4)
      THEN LET x1 == [x EXCEPT !.tr.midi_asked = TRUE, !.tr.midi_made = in.midi]
           IN  IF in.midi
                 THEN Return(x1, Decoder("midi", FALSE), "midi")
                 ELSE OggStep(b, in, x1)
      ELSE OggStep(b, in, x)

\* What a call has done, before it has done anything.
NoTrace ==
    [entered |-> FALSE, exit |-> "", resample |-> FALSE, works_before |-> TRUE,
     midi_asked |-> FALSE, midi_made |-> FALSE,
     opus |-> NotProbed, vorbis |-> NotProbed, wav_probed |-> FALSE,
     mp3_built |-> FALSE, mp3_inited |-> FALSE, scanned |-> FALSE]

\* Filesystem_Stream::InputStream::ReadIntoObj(magic): reads sizeof(magic)
\* bytes and reports whether the stream is still good.
ReadIntoObj(st) ==
    LET r == StreamRead(st, 4) IN [st |-> r.st, got |-> r.got, ok |-> ~r.st.fail]

\* The magic taken as missing only when nothing at all was read.
MagicMissingIfEmpty(r) == Len(r.got) = 0

\* Line 117: the magic could not be read.
MagicMissing(r) == ~r.ok

\* Lines 115-229: Create(stream, resample) with the static at works.
CreateDecoder(b, works, st, in) ==
    LET r  == ReadIntoObj(st)
        x0 == [st |-> r.st, magic |-> Stored(<<0, 0, 0, 0>>, r.got), works |-> works,
               tr |-> [NoTrace EXCEPT !.entered = TRUE, !.works_before = works,
                                      !.resample = in.resample]]
    IN  IF MagicMissing(r)
          THEN Return(x0, Nothing, "short")
          ELSE MidiStep(b, in, [x0 EXCEPT !.st = StreamSeek(@, 0)])

----------------------------------------------------------------------------
\* Initial values

\* The members' initial values are those of the class declaration.
FadeInit ==
    /\ volume = Rat(0, 1)
    /\ fade_end = 0
    /\ fade_time = 0 - 1
    /\ delta_step = Rat(0, 1)
    /\ fade_log = NoFade

\* The builds: HAVE_OPUS, HAVE_TREMOR or HAVE_OGGVORBIS, WANT_FASTWAV,
\* HAVE_LIBSNDFILE, HAVE_XMP, HAVE_MPG123, USE_AUDIO_RESAMPLER.
Builds ==
    [opus : BOOLEAN, vorbis : BOOLEAN, fastwav : BOOLEAN, sndfile : BOOLEAN,
     xmp : BOOLEAN, mpg123 : BOOLEAN, resampler : BOOLEAN]

FullBuild ==
    [opus |-> TRUE, vorbis |-> TRUE, fastwav |-> TRUE, sndfile |-> TRUE,
     xmp |-> TRUE, mpg123 |-> TRUE, resampler |-> TRUE]

\* No DecodeAll has run.
DrainInit ==
    /\ buffer = EmptyVector
    /\ drain = "none"

\* The classifier before its first call.
CreateInit ==
    /\ mpg123_works = TRUE
    /\ stream = NoStream
    /\ created = Nothing
    /\ call = NoTrace

\* A freshly constructed and opened decoder of any kind.  The build's NDEBUG
\* is only told apart for the decoder whose Seek can fail.
EngineInit ==
    /\ backend \in Backends
    /\ ndebug \in (IF backend.kind = "wma" THEN BOOLEAN ELSE {FALSE})
    /\ error_message = ErrorMessageOf(backend)
    /\ pos = 0
    /\ eof = FALSE
    /\ paused = FALSE
    /\ looping = FALSE
    /\ loop_count = 0
    /\ mem = FreshMem
    /\ length = 0
    /\ ret = 0
    /\ fills = 0
    /\ rewinds = 0
    /\ diags = 0
    /\ oob = FALSE
    /\ aborted = FALSE
    /\ log_lines = 0

\* A decoder b that has not decoded anything.
EngineAt(b) ==
    /\ backend = b
    /\ ndebug = FALSE
    /\ error_message = ErrorMessageOf(b)
    /\ pos = 0
    /\ eof = FALSE
    /\ paused = FALSE
    /\ looping = FALSE
    /\ loop_count = 0
    /\ mem = FreshMem
    /\ length = 0
    /\ ret = 0
    /\ fills = 0
    /\ rewinds = 0
    /\ diags = 0
    /\ oob = FALSE
    /\ aborted = FALSE
    /\ log_lines = 0

InitDecode ==
    EngineInit /\ op = "Init" /\ FadeInit /\ CreateInit /\ DrainInit /\ build = FullBuild

NextDecode ==
    \/ Pause
    \/ Resume
    \/ \E enable \in BOOLEAN : SetLooping(enable)
    \/ \E n \in Lengths : Decode(n)

SpecDecode == InitDecode /\ [][NextDecode]_vars

----------------------------------------------------------------------------
\* Properties of Decode (checked under SpecDecode)

\* The caller's buffer after the last Decode.
Buf == 0..(length - 1)

\* C1: after a top-level Decode on an unpaused decoder that returned, every
\* byte of buf[0..length) is a byte the backend produced or zero, the produced
\* bytes come first and every byte after them is zero; no byte is stale.  This
\* is so for a negative, a partial and a full FillBuffer result, with and
\* without loop re-entry.
DecodeDefinesBuffer ==
    (op = "Decode" /\ ~paused /\ ~aborted) =>
        \E p \in 0..length :
            \A i \in Buf :
                /\ mem[i] # Stale
                /\ i < p => mem[i] > 0
                /\ i >= p => mem[i] = 0

\* C1 witness: an unpaused looping Decode of the long buffer over a one-byte
\* track: a partial result and a rewind at every depth down to the cap, then
\* a zero tail.
DecodeDefinesBufferWitness ==
    /\ op = "Decode" /\ ~paused /\ ~aborted /\ looping
    /\ length = LongLen
    /\ rewinds = RecursionCap
    /\ ret = LongLen - 1
    /\ mem[0] > 0 /\ mem[length - 2] > 0 /\ mem[length - 1] = 0

\* C2: a Decode(buf, N) on a paused decoder returns N, leaves buf all zero,
\* calls neither FillBuffer nor Rewind, and leaves loop_count and the
\* backend's read position and end-of-track state as they were.
PausedDecodeIsSilent ==
    [][(op' = "Decode" /\ paused) =>
          /\ ret' = length'
          /\ \A i \in 0..(length' - 1) : mem'[i] = 0
          /\ fills' = 0 /\ rewinds' = 0
          /\ loop_count' = loop_count
          /\ pos' = pos /\ eof' = eof
          /\ ~oob' /\ ~aborted']_vars

\* C2 witness: a paused Decode of a non-empty buffer on a looping decoder
\* that is finished (an unpaused Decode would re-enter the loop here).
PausedDecodeWitness ==
    /\ op = "Decode" /\ paused /\ looping
    /\ IsFinished(backend, pos, eof)
    /\ length > 0 /\ ret = length /\ mem[0] = 0

\* C3: a Decode that returns never returns a negative value.
DecodeNeverNegative == (op = "Decode" /\ ~aborted) => ret >= 0

\* C4: one top-level Decode calls FillBuffer at most 11 times (depths 0..10)
\* and increases loop_count by at most 10, whatever the backend does, so in
\* particular when it is finished again after every rewind.
DecodeRecursionBounded ==
    [][op' = "Decode" =>
          /\ fills' <= RecursionCap + 1
          /\ rewinds' <= RecursionCap
          /\ loop_count' - loop_count <= RecursionCap
          /\ loop_count' >= loop_count]_vars

\* C4 witness: looping over an empty track (finished again right after each
\* rewind), the call went down to depth 10 and came back.
DecodeRecursionWitness ==
    /\ op = "Decode" /\ looping /\ ~paused /\ ~aborted
    /\ backend.kind = "track" /\ backend.len = 0 /\ backend.err = "none"
    /\ fills = RecursionCap + 1
    /\ loop_count = RecursionCap
    /\ length > 0 /\ ret = 0

----------------------------------------------------------------------------
\* The engine drained with DecodeAll

\* The tracks drained: empty, one byte, a whole number of chunks, one byte
\* more than a chunk.
DrainLens ==
    {0, 1, buffer_size, buffer_size + 1, (MaxChunks - 1) * buffer_size}

\* Codec backends that hand out each chunk asked for in full while the track
\* lasts, the backend that only fails, and the WMA sentinel.
DrainBackends ==
    [kind : {"track"}, len : DrainLens, lazy : BOOLEAN,
     chunk : {buffer_size}, err : {"none", "eof"}] \cup {DeadBackend, WMABackend}

InitDecodeAll ==
    /\ \E b \in DrainBackends : EngineAt(b)
    /\ op = "Init" /\ FadeInit /\ CreateInit /\ DrainInit /\ build = FullBuild

NextDecodeAll ==
    \/ Pause
    \/ Resume
    \/ \E enable \in BOOLEAN : SetLooping(enable)
    \/ DecodeAll

SpecDecodeAll == InitDecodeAll /\ [][NextDecodeAll]_vars

\* C11: DecodeAll on an unpaused, non-looping, unfinished decoder whose
\* backend hands out full chunks up to a last partial one returns exactly the
\* bytes the backend produced during the call, in order, and nothing after
\* them.
DecodeAllReturnsProduced ==
    [][(op' = "DecodeAll" /\ ~paused /\ ~looping
          /\ backend.kind = "track" /\ backend.err = "none"
          /\ ~IsFinished(backend, pos, eof)) =>
          /\ drain' = "returned"
          /\ DOMAIN buffer' = 0..(pos' - pos - 1)
          /\ \A i \in DOMAIN buffer' : buffer'[i] = TrackByte(pos + i)]_vars

\* C17: on a decoder that is not looping and whose backend comes to report
\* finished, the loop of DecodeAll exits by itself, paused or not: it does
\* not go on until no memory is left for the vector.
DecodeAllTerminates ==
    (op = "DecodeAll" /\ ~looping /\ backend.err # "dead") => drain # "bad_alloc"

----------------------------------------------------------------------------
\* The volume envelope on its own

InitFade ==
    /\ EngineAt(CodecBackend) /\ op = "Init"
    /\ FadeInit /\ CreateInit /\ DrainInit /\ build = FullBuild

NextFade ==
    \/ \E v \in VolumeArgs : SetVolume(v)
    \/ \E begin \in VolumeArgs, end \in VolumeArgs, duration \in DurationArgs :
           SetFade(begin, end, duration)
    \/ \E delta \in DeltaArgs : Update(delta)

SpecFade == InitFade /\ [][NextFade]_vars

\* C5: 0 <= volume <= 100 in every reachable state.
VolumeInRange == ~RatLess(volume, 0) /\ ~RatGreater(volume, 100)

\* The last SetFade started a fade between two volumes of 0..100.
FadeInScope ==
    /\ fade_log.kind \in {"running", "done"}
    /\ fade_log.begin \in 0..100 /\ fade_log.end \in 0..100

\* begin + t * (end - begin) / duration
Interpolated(log) ==
    Rat(log.begin * log.duration + log.t * (log.end - log.begin), log.duration)

ImmediateFadeLeavesNoFade ==
    [][/\ (op' = "SetFade" /\ fade_log'.kind = "immediate") =>
              volume' = Rat(fade_log'.end, 1)
       /\ (op' = "Update" /\ fade_log.kind = "immediate") => volume' = volume]_vars

\* C13 witness: an immediate SetFade came in the middle of a fade (the step
\* and the end of that fade are still in place), and an Update followed.
ImmediateFadeWitness ==
    /\ op = "Update" /\ fade_log.kind = "immediate"
    /\ fade_log.duration > 0 /\ fade_log.begin = fade_log.end
    /\ delta_step # Rat(0, 1) /\ fade_end # fade_log.end
    /\ volume = Rat(fade_log.end, 1)

----------------------------------------------------------------------------
\* The classifier on its own: a caller opens a file, calls Create on it, and
\* later closes the file and drops the decoder.

\* The files: a 4-byte tag, padding, the WAV format code at offset 20,
\* padding, 6 bytes at offset 28 (where the first Ogg page names its codec),
\* padding; cut off at one of the lengths of StreamLens.
PadByte == 32
Padding(n) == [i \in 1..n |-> PadByte]

Tags == {RIFF, FORM, OggS, fLaC, MThd, wma_magic, ID3 \o <<3>>, <<88, 88, 88, 88>>}
FormatCodes == {<<1, 0>>, <<2, 0>>}
Pages == {Opus \o <<72, 101>>, <<1>> \o vorb \o <<105>>, <<0>> \o RIFF \o <<0>>,
          <<0, 0, 0, 0, 0, 0>>}

\* Bound: the length of the longest file (at least 34, the end of the page).
FullLen == 38

Layout(tag, code, page) ==
    tag \o Padding(16) \o code \o Padding(6) \o page \o Padding(FullLen - 34)
StreamLens == {0, 3, 4, 21, 28, 30, FullLen}

\* The format code is varied for RIFF files and the page for Ogg files, the
\* only files in which Create can look at them.
CodesFor(tag) == IF tag = RIFF THEN FormatCodes ELSE {<<2, 0>>}
PagesFor(tag) == IF tag = OggS THEN Pages ELSE {<<0, 0, 0, 0, 0, 0>>}

Files ==
    UNION {{SubSeq(Layout(tag, code, page), 1, n) :
               code \in CodesFor(tag), page \in PagesFor(tag), n \in StreamLens} :
           tag \in Tags}

\* The first four bytes of a file are lit.
StartsWith(data, lit) == Len(data) >= 4 /\ SameBytes(data, lit, 4)

\* The inputs of one call: the resample argument, the answers of
\* MidiDecoder::Create, XMPDecoder::IsModule, Mpg123Decoder::WasInited and
\* Mpg123Decoder::IsMp3, and the bytes raw_enc holds before it is read into.
\* An input the call cannot consult is held at its first value.
Inputs(b, works, data) ==
    {in \in [resample : BOOLEAN, midi : BOOLEAN, module : BOOLEAN,
             inited : BOOLEAN, ismp3 : BOOLEAN, uninit : {<<0, 0>>, <<1, 0>>}] :
        /\ in.resample => b.resampler
        /\ in.midi => StartsWith(data, MThd)
        /\ in.module => b.xmp
        /\ in.inited => (b.mpg123 /\ works)
        /\ in.ismp3 => in.inited
        /\ in.uninit # <<0, 0>> => (b.fastwav /\ StartsWith(data, RIFF) /\ Len(data) < 22)}

\* The decoder object Create constructed.
BackendOf(dec) ==
    IF dec.kind = "none" THEN NoDecoder
    ELSE IF dec.kind = "wma" THEN WMABackend
    ELSE CodecBackend

\* std::unique_ptr<AudioDecoder> AudioDecoder::Create(stream, resample)
Create(data, in) ==
    /\ ~call.entered
    /\ LET r == CreateDecoder(build, mpg123_works, OpenStream(data), in)
       IN  /\ stream' = r.st
           /\ created' = r.created
           /\ mpg123_works' = r.works
           /\ call' = r.tr
           /\ backend' = BackendOf(r.created)
           /\ error_message' = ErrorMessageOf(BackendOf(r.created))
    /\ op' = "Create"
    /\ UNCHANGED <<build, pos, eof, paused, looping, loop_count, mem, length, ret,
                   fills, rewinds, diags, oob, aborted, ndebug>>
    /\ UNCHANGED <<fadeVars, drainVars, log_lines>>

\* The caller closes the file and destroys the decoder, if any.
Close ==
    /\ call.entered
    /\ stream' = NoStream
    /\ created' = Nothing
    /\ call' = NoTrace
    /\ backend' = NoDecoder
    /\ error_message' = ""
    /\ op' = "Close"
    /\ UNCHANGED <<build, mpg123_works, pos, eof, paused, looping, loop_count, mem,
                   length, ret, fills, rewinds, diags, oob, aborted, ndebug>>
    /\ UNCHANGED <<fadeVars, drainVars, log_lines>>

InitCreate ==
    /\ EngineAt(NoDecoder) /\ op = "Init"
    /\ FadeInit /\ CreateInit /\ DrainInit /\ build \in Builds

NextCreate ==
    \/ /\ ~call.entered
       /\ \E data \in Files :
              \E in \in Inputs(build, mpg123_works, data) : Create(data, in)
    \/ Close

SpecCreate == InitCreate /\ [][NextCreate]_vars

----------------------------------------------------------------------------
\* Properties of Create (checked under SpecCreate)

\* The stream is at offset 0 with failbit and eofbit clear.
StreamClean(st) == st.pos = 0 /\ ~st.fail /\ ~st.eofbit

\* C6: whenever Create returned nothing, the stream is at read position 0
\* with its error and end-of-data flags clear.
NothingLeavesStreamClean ==
    (call.entered /\ created = Nothing) => StreamClean(stream)

\* The stream starts with one of the tags of the generic backend.
GenericFile(data) ==
    \/ StartsWith(data, RIFF)
    \/ StartsWith(data, FORM)
    \/ StartsWith(data, OggS)
    \/ StartsWith(data, fLaC)

\* C7: a stream that starts with RIFF, FORM, OggS or fLaC and that the Opus
\* probe, the Vorbis probe and the fast WAV path did not claim gets the
\* generic backend where it is compiled in and nothing where it is not; the
\* call never goes on to the WMA, tracker or MP3 steps.
GenericBackendClaimsItsFormats ==
    (call.entered /\ GenericFile(stream.data)
       /\ call.exit \notin {"opus", "vorbis", "wav"}) =>
        /\ build.sndfile => created.kind = "sndfile"
        /\ ~build.sndfile => created = Nothing
        /\ ~call.mp3_built /\ ~call.scanned
        /\ call.exit \notin {"wma", "xmp", "id3", "mp3", "nomatch"}

\* C8: Create on a stream that starts 30 26 B2 75 returns, whatever resample
\* is, the sentinel decoder: IsFinished() is true in whatever state it is in
\* and GetError() is not empty.
WMAYieldsSentinel ==
    (call.entered /\ StartsWith(stream.data, wma_magic)) =>
        /\ created = Decoder("wma", FALSE)
        /\ backend = WMABackend
        /\ \A p \in 0..MaxTrack, e \in BOOLEAN : IsFinished(backend, p, e)
        /\ error_message # ""

\* C8 witness: a WMA file, resampling asked for in a build that has the
\* resampler, and the sentinel came back.
WMAYieldsSentinelWitness ==
    /\ call.entered /\ StartsWith(stream.data, wma_magic)
    /\ Len(stream.data) = FullLen
    /\ call.resample /\ build.resampler
    /\ call.exit = "wma" /\ created.kind = "wma"
    /\ error_message = WMAErrorMessage

\* C9 as stated: Create returns nothing for every stream of 4 bytes or fewer.
UpToFourBytesYieldNothing ==
    (call.entered /\ Len(stream.data) <= 4) => created = Nothing

\* C9 as amended: Create returns nothing, at its first return statement, for
\* every stream of fewer than 4 bytes, whatever the bytes and the build.
FewerThanFourBytesYieldNothing ==
    (call.entered /\ Len(stream.data) < 4) =>
        (created = Nothing /\ call.exit = "short")

\* C9 witness: a 3-byte file starting ID3 in a build with every backend.
FewerThanFourBytesWitness ==
    /\ call.entered /\ build = FullBuild
    /\ Len(stream.data) = 3 /\ SameBytes(stream.data, ID3, 3)
    /\ created = Nothing

\* C10: once false, mpg123_works stays false; a call entered with it false
\* neither constructs the MP3 backend nor runs its content scan; and the
\* call that constructs the backend and finds it not initialised sets the
\* flag to false and returns nothing with the stream cleared and rewound.
Mp3FailureIsSticky ==
    [][/\ ~mpg123_works => ~mpg123_works'
       /\ (op' = "Create" /\ ~mpg123_works) =>
              (~call'.mp3_built /\ ~call'.scanned)
       /\ (op' = "Create" /\ call'.mp3_built /\ ~call'.mp3_inited) =>
              /\ ~mpg123_works'
              /\ ~call'.scanned
              /\ created' = Nothing
              /\ StreamClean(stream')]_vars

\* C10 witness: a call made after the flag went false, in a build with the
\* MP3 backend, on a file no earlier step claims: it ends with no match and
\* without having constructed the MP3 backend.
Mp3FailureIsStickyWitness ==
    /\ call.entered /\ build.mpg123
    /\ ~call.works_before /\ ~mpg123_works
    /\ call.exit = "nomatch" /\ ~call.mp3_built
    /\ Len(stream.data) = FullLen

\* C14: for a stream that starts MThd, Create asks MidiDecoder::Create and
\* returns its decoder if it made one; if it made none, the call goes on to
\* the later steps (tracker modules, MP3, no match) rather than returning at
\* once; the generic backend is never constructed.
MidiIsRoutedToMidi ==
    (call.entered /\ StartsWith(stream.data, MThd)) =>
        /\ call.midi_asked
        /\ call.midi_made => (created = Decoder("midi", FALSE) /\ call.exit = "midi")
        /\ ~call.midi_made => call.exit \in {"xmp", "mp3", "nomatch"}
        /\ created.kind # "sndfile"
        /\ call.exit \notin {"sndfile", "nosndfile"}

\* C14 witness: MidiDecoder::Create made nothing of a stream starting MThd
\* and the MP3 backend claimed it after its content scan.
MidiFallsThroughWitness ==
    /\ call.entered /\ StartsWith(stream.data, MThd)
    /\ build.sndfile
    /\ call.midi_asked /\ ~call.midi_made
    /\ call.scanned /\ call.exit = "mp3" /\ created.kind = "mp3"

\* C15: for a stream that starts OggS, after the Opus probe and after the
\* Vorbis probe the stream is at offset 0 with failbit and eofbit clear,
\* whether the probe matched, did not match or read fewer than 4 bytes.
OggProbesRestoreStream ==
    (call.entered /\ StartsWith(stream.data, OggS)) =>
        /\ call.opus.done =>
              (call.opus.pos = 0 /\ ~call.opus.fail /\ ~call.opus.eofbit)
        /\ call.vorbis.done =>
              (call.vorbis.pos = 0 /\ ~call.vorbis.fail /\ ~call.vorbis.eofbit)

----------------------------------------------------------------------------
\* Further properties of Decode (checked under SpecDecode)

\* C16: whatever is called on the WMA sentinel, the assertion of Rewind is
\* not reached and no loop re-entry happens: no Rewind, no loop counted.
SentinelNeverRewinds ==
    backend.kind = "wma" => (~aborted /\ rewinds = 0 /\ loop_count = 0)

\* C19: when a Decode on an unpaused looping decoder returns, a backend with
\* a track of at least one byte that reads without errors is not finished:
\* every end of the track reached in the call was followed by a rewind.
LoopingNeverLeftFinished ==
    [][(op' = "Decode" /\ looping /\ ~paused /\ ~aborted'
          /\ backend.kind = "track" /\ backend.len >= 1 /\ backend.err = "none") =>
          ~IsFinished(backend, pos', eof')]_vars

\* C20: during a Decode no FillBuffer destination and no zero fill reaches
\* outside buf[0..length).
DecodeStaysInBuffer == op = "Decode" => ~oob

----------------------------------------------------------------------------
\* The diagnostic of the recursion cap over the life of the process: one
\* decoder after the other is constructed, set looping and asked to decode
\* from an empty track, which is finished again right after every rewind.

\* Bound: once this many diagnostics were written, no further decoder is
\* constructed and no Decode is called.
MaxLogLines == 52

\* The lengths passed to Decode here.
DiagLengths == {1, MaxLen}

\* Decode is called while loop_count is below this.
DiagLoopCap == DiagLoopLimit + RecursionCap

DiagBackends == {b \in TrackBackends : b.len = 0 /\ b.err = "none" /\ b.chunk = 1}

\* The caller drops the decoder and constructs the next one.
NewDecoder ==
    /\ ~aborted
    /\ log_lines < MaxLogLines
    /\ \E b \in DiagBackends : backend' = b
    /\ pos' = 0 /\ eof' = FALSE
    /\ paused' = FALSE /\ looping' = FALSE /\ loop_count' = 0
    /\ mem' = FreshMem /\ length' = 0 /\ ret' = 0
    /\ fills' = 0 /\ rewinds' = 0 /\ diags' = 0 /\ oob' = FALSE
    /\ op' = "NewDecoder"
    /\ UNCHANGED <<aborted, ndebug, error_message, log_lines>>
    /\ UNCHANGED <<fadeVars, createVars, drainVars>>

InitDiag ==
    /\ \E b \in DiagBackends : EngineAt(b)
    /\ op = "Init" /\ FadeInit /\ CreateInit /\ DrainInit /\ build = FullBuild

NextDiag ==
    \/ \E enable \in BOOLEAN : SetLooping(enable)
    \/ /\ log_lines < MaxLogLines
       /\ \E n \in DiagLengths : DecodeWithin(n, DiagLoopCap)
    \/ NewDecoder

SpecDiag == InitDiag /\ [][NextDiag]_vars

\* C18: over the life of the process, all decoders and all Decode calls
\* together write the diagnostic at most 50 times.
DiagnosticsBounded == log_lines <= DiagLoopLimit

====
